---------------------------- MODULE Spec2Model ----------------------------
(***************************************************************************)
(* A model of BBand.py: the Streamlit script that downloads daily bars,    *)
(* adds the Bollinger-band columns MA, STD, Upper and Lower to the table,  *)
(* draws the candlestick chart and prints the latest row.                  *)
(*                                                                         *)
(* Numbers.  A pandas float is modelled as an integer count of hundredths  *)
(* (the unit of the ".2f" summary lines); a quotient or a square root is   *)
(* rounded down to that unit.  A cell of the table is a record             *)
(*   [k |-> "num", v |-> n]   a number                                     *)
(*   [k |-> "str", v |-> n]   a string that spells the number n            *)
(*   [k |-> "txt", v |-> 0]   a string that spells no number               *)
(*   [k |-> "nan", v |-> 0]   NaN / a missing value                        *)
(*                                                                         *)
(* A DataFrame is [index |-> sequence of dates,                            *)
(*                 column |-> function from column name to sequence of      *)
(*                           cells, one per date].                         *)
(* Positions are 1-based here; position i is the 0-based position i-1 of   *)
(* the Python code.                                                        *)
(***************************************************************************)
EXTENDS Integers, Sequences, FiniteSets, TLC

VARIABLES
    ticker_input,   \* st.text_input value (line 91), before the market suffix
    market,         \* st.selectbox value (line 94)
    start_date,     \* st.date_input (line 103)
    end_date,       \* st.date_input (line 105)
    window,         \* st.slider (line 108) / parameter of plot_bollinger_bands
    num_std,        \* st.slider (line 109) / parameter of plot_bollinger_bands
    button,         \* what st.button returned in the latest script run (line 112)
    data,           \* the DataFrame named data of the latest run, or None
    fig,            \* the value named fig of the latest run (line 123)
    log,            \* what the latest run called and displayed, in order
    pc              \* "idle": the script has run to its end;
                    \* "downloaded": line 114 has returned, line 115 is next

vars == <<ticker_input, market, start_date, end_date, window, num_std,
          button, data, fig, log, pc>>

widgets == <<ticker_input, market, start_date, end_date, window, num_std>>

-----------------------------------------------------------------------------
(* Bounds of the model *)

MaxRows == 4          \* rows of a table handed to plot_bollinger_bands alone
MaxEngineWindow == 3  \* windows 1..MaxEngineWindow handed to it alone
MaxFetchRows == 6     \* rows of a table the provider returns to the app
WindowChoices == 1    \* slider positions MinWindow .. MinWindow+WindowChoices-1

(* Program constants *)

MinWindow == 5
MaxWindow == 60
MinNumStd == 1
MaxNumStd == 3
DefaultWindow == 20
DefaultNumStd == 2
TailRows == 5
ddof == 1

-----------------------------------------------------------------------------
(* Cells and numbers *)

NaN == [k |-> "nan", v |-> 0]

Num(x) == [k |-> "num", v |-> x]

NumStr(x) == [k |-> "str", v |-> x]

Text == [k |-> "txt", v |-> 0]

isna(c) == c.k = "nan"

\* pd.to_numeric(errors='coerce') on one cell
to_numeric(c) ==
    CASE c.k = "num" -> c
      [] c.k = "str" -> Num(c.v)
      [] c.k = "txt" -> NaN
      [] OTHER       -> NaN

\* float addition, subtraction and scaling: NaN propagates
fadd(a, b) == IF isna(a) \/ isna(b) THEN NaN ELSE Num(a.v + b.v)

fsub(a, b) == IF isna(a) \/ isna(b) THEN NaN ELSE Num(a.v - b.v)

fscale(m, a) == IF isna(a) THEN NaN ELSE Num(m * a.v)

\* floor of the square root
isqrt(n) == CHOOSE r \in 0..n : r * r <= n /\ n < (r + 1) * (r + 1)

RECURSIVE SumOver(_, _)
SumOver(f, S) ==
    IF S = {} THEN 0
    ELSE LET i == CHOOSE j \in S : TRUE
         IN  f[i] + SumOver(f, S \ {i})

-----------------------------------------------------------------------------
(* DataFrame *)

None == [none |-> TRUE]

cols == {"Open", "High", "Low", "Close", "Volume"}

columns(df) == DOMAIN df.column

len(df) == Len(df.index)

\* "data is None" in place of data.empty: never true of a DataFrame
empty_is_none(df) == df = None

\* DataFrame.empty: some axis has length 0
empty(df) == len(df) = 0 \/ columns(df) = {}

\* the j-th smallest member of a set of positions
Nth(S, j) == CHOOSE i \in S : Cardinality({x \in S : x <= i}) = j

\* the rows at the positions of keep, in their order
take(df, keep) ==
    LET m == Cardinality(keep)
    IN  [index |-> [j \in 1..m |-> df.index[Nth(keep, j)]],
         column |-> [c \in columns(df) |->
                       [j \in 1..m |-> df.column[c][Nth(keep, j)]]]]

\* data[cols] = data[cols].apply(pd.to_numeric, errors='coerce')
coerce(df) ==
    [df EXCEPT !.column =
        [c \in columns(df) |->
            IF c \in cols
            THEN [i \in 1..len(df) |-> to_numeric(df.column[c][i])]
            ELSE df.column[c]]]

\* data.dropna(inplace=True): a missing value in any column drops the row
dropna_any_column(df) ==
    take(df, {i \in 1..len(df) : \A c \in columns(df) : ~isna(df.column[c][i])})

\* data.dropna(subset=cols, inplace=True)
dropna(df) ==
    take(df, {i \in 1..len(df) : \A c \in cols : ~isna(df.column[c][i])})

\* data[name] = series
setcol(df, name, series) ==
    [df EXCEPT !.column = [c \in columns(df) \cup {name} |->
                            IF c = name THEN series ELSE df.column[c]]]

-----------------------------------------------------------------------------
(* Series.rolling(window=w): min_periods defaults to the window *)

\* the positions of the window ending at i
Window(i, w) == {j \in 1..i : j > i - w}

\* the observations of the window: its positions that hold a number
Obs(s, i, w) == {j \in Window(i, w) : ~isna(s[j])}

\* rolling(window=w, min_periods=1).mean(): the mean of what there is
rolling_mean_min_periods_1(s, w) ==
    [i \in 1..Len(s) |->
        LET O == Obs(s, i, w)
            n == Cardinality(O)
            x == [j \in O |-> s[j].v]
        IN  IF n >= 1 THEN Num(SumOver(x, O) \div n) ELSE NaN]

rolling_mean(s, w) ==
    [i \in 1..Len(s) |->
        LET O == Obs(s, i, w)
            n == Cardinality(O)
            x == [j \in O |-> s[j].v]
        IN  IF n >= w THEN Num(SumOver(x, O) \div n) ELSE NaN]

\* .std(ddof=0): the population standard deviation
rolling_std_population(s, w) ==
    [i \in 1..Len(s) |->
        LET O  == Obs(s, i, w)
            n  == Cardinality(O)
            x  == [j \in O |-> s[j].v]
            xx == [j \in O |-> s[j].v * s[j].v]
            sx == SumOver(x, O)
        IN  IF n >= w /\ n > 0
            THEN Num(isqrt((n * SumOver(xx, O) - sx * sx) \div (n * n)))
            ELSE NaN]

\* .std(): the sample standard deviation, ddof = 1
rolling_std(s, w) ==
    [i \in 1..Len(s) |->
        LET O  == Obs(s, i, w)
            n  == Cardinality(O)
            x  == [j \in O |-> s[j].v]
            xx == [j \in O |-> s[j].v * s[j].v]
            sx == SumOver(x, O)
        IN  IF n >= w /\ n > ddof
            THEN Num(isqrt((n * SumOver(xx, O) - sx * sx) \div (n * (n - ddof))))
            ELSE NaN]

-----------------------------------------------------------------------------
(* plot_bollinger_bands *)

\* line 28: set(cols).issubset(data.columns)
schema_ok(df) == cols \subseteq columns(df)

\* the message naming the required columns that are missing instead
schema_error_missing(df) ==
    [ev |-> "st.error", msg |-> "SchemaMismatch", fields |-> cols \ columns(df)]

\* line 29: st.error(f"...實際欄位：{list(data.columns)}")
schema_error(df) ==
    [ev |-> "st.error", msg |-> "SchemaMismatch", fields |-> columns(df)]

\* lines 33-34: coercion, then the rows with a missing required value go
prepare(df) == dropna(coerce(df))

\* the lower band without the multiplier: data['MA'] - data['STD']
bands_lower_unscaled(df, m) ==
    LET upper == [i \in 1..len(df) |->
                    fadd(df.column["MA"][i], fscale(m, df.column["STD"][i]))]
        lower == [i \in 1..len(df) |->
                    fsub(df.column["MA"][i], df.column["STD"][i])]
    IN  setcol(setcol(df, "Upper", upper), "Lower", lower)

\* lines 41-42: data['Upper'] and data['Lower'] from the columns MA and STD
bands(df, m) ==
    LET upper == [i \in 1..len(df) |->
                    fadd(df.column["MA"][i], fscale(m, df.column["STD"][i]))]
        lower == [i \in 1..len(df) |->
                    fsub(df.column["MA"][i], fscale(m, df.column["STD"][i]))]
    IN  setcol(setcol(df, "Upper", upper), "Lower", lower)

\* lines 37-38: data['MA'] and data['STD'] from the column Close
averages(df, w) ==
    setcol(setcol(df, "MA", rolling_mean(df.column["Close"], w)),
           "STD", rolling_std(df.column["Close"], w))

\* lines 37-42: the four indicator columns
indicators(df, w, m) == bands(averages(df, w), m)

\* lines 67-83: mpf.make_addplot and mpf.plot are library code outside the
\* repository.  With a table that has bars and values on each of the three
\* overlays it returns the figure.  With no row, or with an overlay that
\* has no value at all to scale the axes by, whether it returns a figure
\* or raises is left open: both outcomes are possible.
mpf_plot(df) ==
    IF \/ len(df) = 0
       \/ \E c \in {"MA", "Upper", "Lower"} :
             \A i \in 1..len(df) : isna(df.column[c][i])
    THEN {"Figure", "raised"}
    ELSE {"Figure"}

\* lines 44-84 on the augmented table: every way the drawing can end
draw(df) ==
    {[data |-> df, fig |-> f, out |-> <<[ev |-> "mpf.plot"]>>] : f \in mpf_plot(df)}

\* the coercion of line 33 done on the required columns that exist before
\* the check of line 28 instead of after it
plot_bollinger_bands_late_check(df, w, m) ==
    IF ~schema_ok(df)
    THEN {[data |-> coerce(df), fig |-> "None", out |-> <<schema_error(df)>>]}
    ELSE draw(indicators(prepare(df), w, m))

\* The call plot_bollinger_bands(df, window=w, num_std=m): every way it can
\* end, each with the table as the call leaves it (it is changed in place),
\* the value returned ("raised" when an exception leaves the function
\* instead) and what was displayed.
plot_bollinger_bands(df, w, m) ==
    IF ~schema_ok(df)
    THEN {[data |-> df, fig |-> "None", out |-> <<schema_error(df)>>]}
    ELSE draw(indicators(prepare(df), w, m))

-----------------------------------------------------------------------------
(* The provider and download_stock_data *)

Tickers == {<<"NVDA">>, <<"2330">>, <<"2330", ".TW">>}

Markets == {"US", "TW"}

Dates == {1, 2}

Windows ==
    {w \in MinWindow..MaxWindow :
        w < MinWindow + WindowChoices \/ w = DefaultWindow}

NumStds == MinNumStd..MaxNumStd

\* lines 95-98: the symbol the query asks for
symbol(t, mk) ==
    IF mk = "TW" /\ ~(Len(t) > 0 /\ t[Len(t)] = ".TW")
    THEN Append(t, ".TW")
    ELSE t

\* A table of n daily bars.  close[i] is the Close cell of bar i, volume[i]
\* its Volume cell; labels are its column labels.  A label that is not a
\* required one holds no value on any bar.
Bars(n, close, volume, labels) ==
    [index  |-> [i \in 1..n |-> i],
     column |-> [c \in labels |->
                   [i \in 1..n |->
                       CASE c = "Close"  -> close[i]
                         [] c = "Volume" -> volume[i]
                         [] c \in cols   -> Num(12)
                         [] OTHER        -> NaN]]]

Labelings == {cols, cols \ {"Volume"}}

\* closes that rise and fall, those at the positions of bad unreadable
Closes(n, bad) == [i \in 1..n |-> IF i \in bad THEN Text ELSE Num(10 + 3 * (i % 3))]

\* the tables yf.download can answer with: no row and no column, or bars
\* with none, the first or all of the closes unreadable
Tables ==
    {Bars(0, <<>>, <<>>, {})} \cup
    {Bars(n, Closes(n, bad), [i \in 1..n |-> Num(100)], L) :
        n \in 0..MaxFetchRows,
        bad \in {{}, {1}, 1..MaxFetchRows},
        L \in Labelings}

\* the table as the provider labels its columns: with one-level labels
\* <<field>> or, with a MultiIndex, two-level labels <<field, ticker>>
OneLevel(t) ==
    [index  |-> t.index,
     column |-> [l \in {<<c>> : c \in columns(t)} |-> t.column[l[1]]]]

TwoLevel(t, sym) ==
    [index  |-> t.index,
     column |-> [l \in {<<c, sym>> : c \in columns(t)} |-> t.column[l[1]]]]

\* line 11: what yf.download(ticker, ...) can return
Responses(sym) ==
    {OneLevel(t) : t \in Tables} \cup {TwoLevel(t, sym) : t \in Tables}

\* lines 7-15: the columns relabelled by level 0 of their labels.  A
\* one-level label is its own level 0, which line 13 leaves as it is.
download_stock_data(response) ==
    [index  |-> response.index,
     column |-> [c \in {l[1] : l \in DOMAIN response.column} |->
                   response.column[CHOOSE l \in DOMAIN response.column : l[1] = c]]]

-----------------------------------------------------------------------------
(* The script, lines 87-135: one run from top to bottom *)

fmt2f(c) == IF isna(c) THEN [text |-> "nan", cents |-> 0]
            ELSE [text |-> "number", cents |-> c.v]

\* data.tail(5): the dates of the last rows
tail(df) ==
    SubSeq(df.index, IF len(df) > TailRows THEN len(df) - TailRows + 1 ELSE 1, len(df))

\* lines 130-135: data.iloc[-1] and the five summary lines
summary(df) ==
    LET n == len(df)
    IN  <<[ev |-> "st.subheader", date  |-> df.index[n]],
          [ev |-> "st.write", Close |-> fmt2f(df.column["Close"][n])],
          [ev |-> "st.write", Upper |-> fmt2f(df.column["Upper"][n])],
          [ev |-> "st.write", MA    |-> fmt2f(df.column["MA"][n])],
          [ev |-> "st.write", Lower |-> fmt2f(df.column["Lower"][n])]>>

\* an exception no code catches: Streamlit shows it and the run is over
exception == [ev |-> "exception"]

\* lines 124-135: what follows the call of plot_bollinger_bands that ended
\* as r, after the lines pre.  [data, fig, log]
after_plot(pre, r) ==
    CASE r.fig = "raised" ->
           [data |-> r.data, fig |-> "unset", log |-> Append(pre \o r.out, exception)]
      [] r.fig = "None" ->
           [data |-> r.data, fig |-> "None",
            log  |-> Append(pre \o r.out, [ev |-> "st.error", msg |-> "NoChart"])]
      [] OTHER ->
           [data |-> r.data, fig |-> r.fig,
            log  |-> pre \o r.out \o <<[ev |-> "st.pyplot"]>> \o
                     (IF len(r.data) = 0 THEN <<exception>> ELSE summary(r.data))]

\* lines 115-135 on the downloaded table d0, after the call of yf.download:
\* every way the run can end.  [data, fig, log]
on_data(call, d0, w, m) ==
    IF empty(d0)
    THEN {[data |-> d0, fig |-> "unset",
           log  |-> Append(call, [ev |-> "st.error", msg |-> "EmptyDataset"])]}
    ELSE {after_plot(call \o <<[ev |-> "st.write", count |-> len(d0)],
                               [ev |-> "st.write", tail |-> tail(d0)]>>, r) :
             r \in plot_bollinger_bands(d0, w, m)}

\* lines 113-114: the button was pressed; the provider answers
Download ==
    \E response \in Responses(symbol(ticker_input', market')) :
        /\ data' = download_stock_data(response)
        /\ fig' = "unset"
        /\ log' = <<[ev |-> "yf.download",
                     ticker |-> symbol(ticker_input', market'),
                     start |-> start_date', end |-> end_date']>>
        /\ pc' = "downloaded"

\* the run of the script with the button not pressed: nothing below line 112
Idle ==
    /\ data' = None
    /\ fig' = "unset"
    /\ log' = <<>>
    /\ pc' = "idle"

\* the handler not guarded by the button: every run of the script downloads
Script_unguarded(pressed) ==
    /\ button' = pressed
    /\ Download

\* line 112: st.button returns pressed in this run
Script(pressed) ==
    /\ button' = pressed
    /\ IF pressed THEN Download ELSE Idle

\* lines 115-135: the rest of the run, once yf.download has returned
Render ==
    /\ pc = "downloaded"
    /\ \E r \in on_data(log, data, window, num_std) :
          /\ data' = r.data
          /\ fig' = r.fig
          /\ log' = r.log
    /\ pc' = "idle"
    /\ UNCHANGED <<widgets, button>>

-----------------------------------------------------------------------------
(* What the user does.  Every widget change reruns the script. *)

SetTicker ==
    /\ \E t \in Tickers \ {ticker_input} : ticker_input' = t
    /\ UNCHANGED <<market, start_date, end_date, window, num_std>>

SetMarket ==
    /\ \E mk \in Markets \ {market} : market' = mk
    /\ UNCHANGED <<ticker_input, start_date, end_date, window, num_std>>

SetStartDate ==
    /\ \E d \in Dates \ {start_date} : start_date' = d
    /\ UNCHANGED <<ticker_input, market, end_date, window, num_std>>

SetEndDate ==
    /\ \E d \in Dates \ {end_date} : end_date' = d
    /\ UNCHANGED <<ticker_input, market, start_date, window, num_std>>

SetWindow ==
    /\ \E w \in Windows \ {window} : window' = w
    /\ UNCHANGED <<ticker_input, market, start_date, end_date, num_std>>

SetNumStd ==
    /\ \E m \in NumStds \ {num_std} : num_std' = m
    /\ UNCHANGED <<ticker_input, market, start_date, end_date, window>>

\* the user changes one widget and the script runs, the button not pressed
ChangeWidget ==
    /\ pc = "idle"
    /\ \/ SetTicker
       \/ SetMarket
       \/ SetStartDate
       \/ SetEndDate
       \/ SetWindow
       \/ SetNumStd
    /\ Script(FALSE)

\* the user presses the button and the script runs
PressQuery ==
    /\ pc = "idle"
    /\ UNCHANGED widgets
    /\ Script(TRUE)

\* the page as first served: the widgets at their defaults, no run of the
\* handler yet
Init ==
    /\ ticker_input = <<"NVDA">>
    /\ market = "US"
    /\ start_date = 1
    /\ end_date = 2
    /\ window = DefaultWindow
    /\ num_std = DefaultNumStd
    /\ button = FALSE
    /\ data = None
    /\ fig = "unset"
    /\ log = <<>>
    /\ pc = "idle"

Next ==
    \/ ChangeWidget
    \/ PressQuery
    \/ Render

Spec == Init /\ [][Next]_vars

-----------------------------------------------------------------------------
(* plot_bollinger_bands on its own: every table, window and multiplier it  *)
(* can be handed, then the call.                                           *)

RowKinds == {"lo", "hi", "str", "txt", "vol"}

CloseOf(kind) ==
    CASE kind = "lo"  -> Num(10)
      [] kind = "hi"  -> Num(16)
      [] kind = "str" -> NumStr(13)
      [] kind = "txt" -> Text
      [] OTHER        -> Num(12)

VolumeOf(kind) == IF kind = "vol" THEN NaN ELSE Num(100)

EngineLabelings == {cols, cols \cup {"Adj Close"}, cols \ {"Volume"}}

EngineTables ==
    UNION {{Bars(n, [i \in 1..n |-> CloseOf(k[i])],
                    [i \in 1..n |-> VolumeOf(k[i])], L) :
               k \in [1..n -> RowKinds], L \in EngineLabelings} :
           n \in 0..MaxRows}

EngineInit ==
    /\ ticker_input = <<"NVDA">>
    /\ market = "US"
    /\ start_date = 1
    /\ end_date = 2
    /\ window \in 1..MaxEngineWindow
    /\ num_std \in NumStds
    /\ button = FALSE
    /\ data \in EngineTables
    /\ fig = "unset"
    /\ log = <<>>
    /\ pc = "idle"

\* the call plot_bollinger_bands(data, window=window, num_std=num_std)
CallPlot ==
    /\ fig = "unset"
    /\ \E r \in plot_bollinger_bands(data, window, num_std) :
          /\ data' = r.data
          /\ fig' = r.fig
          /\ log' = r.out
    /\ UNCHANGED <<widgets, button, pc>>

EngineNext == CallPlot

EngineSpec == EngineInit /\ [][EngineNext]_vars

-----------------------------------------------------------------------------
(* Properties of plot_bollinger_bands, checked under EngineSpec *)

\* the call has got past the schema check: the indicator columns are there
Computed == fig \in {"Figure", "raised"}

Col(name, i) == data.column[name][i]

\* the sum of the numbers of s at the positions lo..hi
RECURSIVE RangeSum(_, _, _)
RangeSum(s, lo, hi) ==
    IF hi < lo THEN 0 ELSE s[hi].v + RangeSum(s, lo, hi - 1)

\* the sum over the positions lo..hi of (w * s[j] - total)^2, which is w^2
\* times the sum of the squared deviations from the mean total / w
RECURSIVE SqDevSum(_, _, _, _, _)
SqDevSum(s, lo, hi, w, total) ==
    IF hi < lo THEN 0
    ELSE (w * s[hi].v - total) * (w * s[hi].v - total)
         + SqDevSum(s, lo, hi - 1, w, total)

\* the mean of the w closes ending at position i, in hundredths
MeanAt(i, w) == RangeSum(data.column["Close"], i - w + 1, i) \div w

\* the sample standard deviation (divisor w - 1) of the w closes ending at
\* position i, in hundredths
SampleStdAt(i, w) ==
    isqrt(SqDevSum(data.column["Close"], i - w + 1, i, w,
                   RangeSum(data.column["Close"], i - w + 1, i))
          \div (w * w * (w - 1)))

\* C1: after the rows are dropped, MA is defined at 0-based position p iff
\* p >= window - 1 (here: position i >= window), and it is then the
\* arithmetic mean of the window closes ending there.
C1_MovingAverage ==
    Computed =>
        \A i \in 1..len(data) :
            /\ ~isna(Col("MA", i)) <=> i >= window
            /\ i >= window => Col("MA", i) = Num(MeanAt(i, window))

\* a table with rows before and after the window fills, closes that differ
C1_Witness ==
    /\ Computed
    /\ window >= 2
    /\ len(data) > window
    /\ isna(Col("MA", 1))
    /\ ~isna(Col("MA", len(data)))
    /\ Col("MA", len(data)) # Col("Close", len(data))

\* C2: Upper and Lower are absent exactly where MA or STD is absent, and
\* where both are defined Upper - Lower = 2 * num_std * STD.
C2_BandWidth ==
    Computed =>
        \A i \in 1..len(data) :
            /\ isna(Col("Upper", i)) <=> (isna(Col("MA", i)) \/ isna(Col("STD", i)))
            /\ isna(Col("Lower", i)) <=> (isna(Col("MA", i)) \/ isna(Col("STD", i)))
            /\ (~isna(Col("Upper", i)) /\ ~isna(Col("Lower", i))) =>
                   Col("Upper", i).v - Col("Lower", i).v
                       = 2 * num_std * Col("STD", i).v

\* bands of positive width at the last row, absent at the first
C2_Witness ==
    /\ Computed
    /\ num_std >= 2
    /\ len(data) >= 2
    /\ isna(Col("Upper", 1))
    /\ ~isna(Col("Upper", len(data)))
    /\ Col("STD", len(data)).v > 0
    /\ Col("Upper", len(data)).v > Col("Lower", len(data)).v

\* C3 as claimed: for every window >= 1, STD is defined at 0-based position
\* p iff p >= window - 1 (the rule of MA, also for a window of one point),
\* and it is then the sample standard deviation with divisor window - 1,
\* Upper being the mean plus num_std times it.
C3_Original ==
    Computed =>
        /\ \A i \in 1..len(data) : ~isna(Col("STD", i)) <=> i >= window
        /\ \A i \in window..len(data) :
              /\ Col("STD", i) = Num(SampleStdAt(i, window))
              /\ Col("Upper", i) = Num(MeanAt(i, window)
                                       + num_std * SampleStdAt(i, window))

\* C3 as amended: for a window >= 2, STD is defined at 0-based position p
\* iff p >= window - 1, and it is then the sample standard deviation with
\* divisor window - 1, Upper being the mean plus num_std times it; for a
\* window of 1, STD, Upper and Lower are absent on every row while MA is
\* defined on every row.
C3_SampleStd ==
    Computed =>
        /\ \A i \in 1..len(data) :
              ~isna(Col("STD", i)) <=> (i >= window /\ window >= 2)
        /\ window >= 2 =>
              \A i \in window..len(data) :
                 /\ Col("STD", i) = Num(SampleStdAt(i, window))
                 /\ Col("Upper", i) = Num(MeanAt(i, window)
                                          + num_std * SampleStdAt(i, window))
        /\ window = 1 =>
              \A i \in 1..len(data) :
                 /\ ~isna(Col("MA", i))
                 /\ isna(Col("Upper", i))
                 /\ isna(Col("Lower", i))

\* a window of at least two points with a positive deviation at the last
\* row and none defined at the first
C3_Witness ==
    /\ Computed
    /\ window >= 2
    /\ len(data) > window
    /\ isna(Col("STD", 1))
    /\ Col("STD", len(data)).v > 0
    /\ Col("Upper", len(data)).v > Col("MA", len(data)).v

\* the cell holds a number or spells one
Numeric(c) == c.k \in {"num", "str"}

\* C9: once the schema check has passed, the call removes every row in
\* which one of the five required fields is not numeric, as a whole row,
\* keeps every row whose five required fields are all numeric, in the
\* original order and with its values, and the windows of MA and STD are
\* counted in positions of the series after the removal.
C9_RowsDropped ==
    [][(fig = "unset" /\ fig' # "unset" /\ schema_ok(data)) =>
        LET Good(i)  == \A c \in cols : Numeric(data.column[c][i])
            Kept(d)  == \E i \in 1..len(data) : data.index[i] = d /\ Good(i)
            Row(d)   == CHOOSE i \in 1..len(data) : data.index[i] = d
        IN  /\ data'.index = SelectSeq(data.index, Kept)
            /\ \A j \in 1..Len(data'.index) :
                  /\ \A c \in cols :
                        data'.column[c][j].k = "num"
                        /\ data'.column[c][j].v = data.column[c][Row(data'.index[j])].v
                  /\ ~isna(data'.column["MA"][j]) <=> j >= window
                  /\ ~isna(data'.column["STD"][j]) <=> (j >= window /\ window >= 2)
    ]_vars

\* a row between two kept rows has gone, and the window has filled over
\* the rows that are left
C9_Witness ==
    /\ Computed
    /\ window >= 2
    /\ len(data) >= window
    /\ \E j \in 1..(len(data) - 1) : data.index[j + 1] > data.index[j] + 1
    /\ ~isna(Col("STD", len(data)))

-----------------------------------------------------------------------------
(* Properties of the script, checked under Spec *)

Entries == 1..Len(log)

IsError(e, m) == e.ev = "st.error" /\ e.msg = m

\* the entry is a summary line of lines 131-135
IsSummary(e) ==
    \/ e.ev = "st.subheader"
    \/ e.ev = "st.write" /\ DOMAIN e \cap {"Close", "Upper", "MA", "Lower"} # {}

\* the entry is the chart: the call of mpf.plot or its display
IsChart(e) == e.ev \in {"mpf.plot", "st.pyplot"}

\* the table downloaded in this run lacks a required column
LacksField(df) == ~(cols \subseteq columns(df))

\* C4: when the fetched table lacks a required field the run changes nothing
\* in the table (no coercion, no row dropped, no indicator column), no
\* figure is returned, no chart and no latest-row summary is shown, and the
\* run ends with an error message.
C4_NoComputation ==
    [][(pc = "downloaded" /\ LacksField(data)) =>
        /\ data' = data
        /\ fig' \in {"None", "unset"}
        /\ fig' = "None" <=> (len(data) > 0 /\ columns(data) # {})
        /\ pc' = "idle"
        /\ \A i \in 1..Len(log') :
              ~IsChart(log'[i]) /\ ~IsSummary(log'[i]) /\ log'[i].ev # "exception"
        /\ log'[Len(log')].ev = "st.error"
    ]_vars

\* a run that ended on a table without Volume whose first close is text
C4_Witness ==
    /\ pc = "idle"
    /\ button
    /\ fig = "None"
    /\ LacksField(data)
    /\ "Volume" \notin columns(data)
    /\ data.column["Close"][1] = Text
    /\ IsError(log[Len(log)], "NoChart")

\* C5 as claimed: the SchemaMismatch message carries exactly the required
\* fields that are absent from the table.
C5_Original ==
    \A i \in Entries :
        IsError(log[i], "SchemaMismatch") => log[i].fields = cols \ columns(data)

\* C5 as amended: the SchemaMismatch message carries the fields the table
\* has, which are not all the required ones; the absent fields are not in it.
C5_ActualFields ==
    \A i \in Entries :
        IsError(log[i], "SchemaMismatch") =>
            /\ log[i].fields = columns(data)
            /\ ~(cols \subseteq log[i].fields)

\* the message of a run on a table without Volume
C5_Witness ==
    \E i \in Entries :
        /\ IsError(log[i], "SchemaMismatch")
        /\ "Volume" \notin log[i].fields
        /\ "Close" \in log[i].fields

\* C6: when the fetch returns an empty series the run shows the
\* EmptyDataset message and nothing else: plot_bollinger_bands is not
\* called, and no row count, preview, chart or summary is shown.
C6_EmptyDataset ==
    [][(pc = "downloaded" /\ (Len(data.index) = 0 \/ DOMAIN data.column = {})) =>
        /\ log' = Append(log, [ev |-> "st.error", msg |-> "EmptyDataset"])
        /\ Len(log') = 2
        /\ data' = data
        /\ fig' = "unset"
        /\ pc' = "idle"
    ]_vars

\* a run that ended on a table with the required columns and no row
C6_Witness ==
    /\ pc = "idle"
    /\ button
    /\ cols \subseteq columns(data)
    /\ len(data) = 0
    /\ Len(log) = 2
    /\ IsError(log[2], "EmptyDataset")

\* C7 as claimed: a downloaded table with rows, the required columns and
\* fewer rows than the window ends in no error: every indicator is absent
\* on every row, the chart is shown, and the summary lines are taken from a
\* last row whose indicators are absent.
C7_Original ==
    [][(pc = "downloaded" /\ len(data) > 0 /\ cols \subseteq columns(data)
           /\ len(data) < window) =>
        /\ fig' = "Figure"
        /\ \A i \in 1..len(data') :
              \A c \in {"MA", "STD", "Upper", "Lower"} : isna(data'.column[c][i])
        /\ \A i \in 1..Len(log') : log'[i].ev # "exception"
        /\ \E i \in 1..Len(log') : log'[i].ev = "st.pyplot"
        /\ \E i \in 1..Len(log') :
              /\ log'[i].ev = "st.write"
              /\ "Upper" \in DOMAIN log'[i]
              /\ log'[i].Upper.text = "nan"
    ]_vars

\* the place of an entry in a run
Rank(e) ==
    CASE e.ev = "yf.download"  -> 1
      [] e.ev = "st.error"     -> IF e.msg = "EmptyDataset" THEN 2
                                  ELSE IF e.msg = "SchemaMismatch" THEN 4 ELSE 5
      [] e.ev = "mpf.plot"     -> 4
      [] e.ev = "st.pyplot"    -> 5
      [] e.ev = "st.subheader" -> 6
      [] e.ev = "exception"    -> 11
      [] OTHER ->
           CASE "count" \in DOMAIN e -> 2
             [] "tail"  \in DOMAIN e -> 3
             [] "Close" \in DOMAIN e -> 7
             [] "Upper" \in DOMAIN e -> 8
             [] "MA"    \in DOMAIN e -> 9
             [] OTHER                -> 10

\* C8: a download happens only in a run in which the button was pressed and
\* no widget was changed; a run without the button shows nothing; and in a
\* run the steps come in the order download, row count, tail preview (both
\* of the table as downloaded), indicators and chart, summary.
C8_ExplicitTrigger ==
    /\ [][(\E i \in 1..Len(log') : log'[i].ev = "yf.download") =>
              (button' /\ (pc = "idle" => widgets' = widgets))]_vars
    /\ [][widgets' # widgets => (~button' /\ log' = <<>> /\ pc' = "idle")]_vars
    /\ [][(pc = "downloaded" /\ Len(log') > 2) =>
              /\ log'[2] = [ev |-> "st.write", count |-> len(data)]
              /\ log'[3] = [ev |-> "st.write", tail |-> tail(data)]]_vars
    /\ [](\A i, j \in Entries : i < j => Rank(log[i]) < Rank(log[j]))
    /\ []((pc = "downloaded" \/ log # <<>>) => (button /\ log[1].ev = "yf.download"))

\* a run that went through every step, with the window at the slider's
\* minimum
C8_Witness ==
    /\ pc = "idle"
    /\ button
    /\ window = MinWindow
    /\ Len(log) = 10
    /\ log[1].ev = "yf.download"
    /\ "Lower" \in DOMAIN log[10]
    /\ log[10].Lower.text = "number"

\* the run ended with the EmptyDataset message
EndedEmpty == IsError(log[Len(log)], "EmptyDataset")

\* the run ended with the SchemaMismatch message and the one that follows
EndedSchema ==
    /\ IsError(log[Len(log)], "NoChart")
    /\ \E i \in Entries : IsError(log[i], "SchemaMismatch")

\* the run ended with the chart and the latest-row summary
EndedChart ==
    /\ \E i \in Entries : log[i].ev = "st.pyplot"
    /\ log[Len(log)].ev = "st.write"
    /\ "Lower" \in DOMAIN log[Len(log)]

\* C10 as claimed: every run that was triggered ends in exactly one of the
\* three outcomes: the EmptyDataset message, the SchemaMismatch message, or
\* the chart with the latest-row summary.
C10_Original ==
    (pc = "idle" /\ button) =>
        \/ EndedEmpty /\ ~EndedSchema /\ ~EndedChart
        \/ ~EndedEmpty /\ EndedSchema /\ ~EndedChart
        \/ ~EndedEmpty /\ ~EndedSchema /\ EndedChart

=============================================================================
